---- MODULE Spec2Model ----
(***************************************************************************)
(* Model of the oref core scaffolding: the insulin-curve enumeration       *)
(* (insulin/curves.rs) and the determine-basal result type                 *)
(* (types/output.rs).                                                      *)
(*                                                                         *)
(* Every operation of these files is a pure function.  Each specification  *)
(* below draws the arguments from bounded sets and records the call and    *)
(* the value it returned:                                                  *)
(*   SpecCurve   effective_dia / effective_peak and profile construction   *)
(*   SpecParse   Display and FromStr of InsulinCurve                       *)
(*   SpecResult  the constructors and predicates of DetermineBasalResult   *)
(*   SpecSer     serialization of DetermineBasalResult                     *)
(***************************************************************************)
EXTENDS Integers, Sequences, FiniteSets, TLC

VARIABLES
    curve,        \* the InsulinCurve variant in use
    dia,          \* requested DIA (f64, hours)
    peak,         \* requested custom peak (u32, minutes)
    use_custom,   \* whether the custom peak is requested
    eff_dia,      \* Option: value returned by effective_dia
    eff_peak,     \* Option: outcome of effective_peak
    profile,      \* Option: value returned by Profile::builder()...build()
    text,         \* a string (sequence of characters)
    origin,       \* how text was obtained
    parsed,       \* Option: value returned by from_str(text)
    call,         \* the last call into types/output.rs, with its arguments
    result,       \* Option: the value the call returned
    wire          \* Option: the serialized form of result

vars == <<curve, dia, peak, use_custom, eff_dia, eff_peak, profile,
          text, origin, parsed, call, result, wire>>

curveVars == <<curve, dia, peak, use_custom, eff_dia, eff_peak, profile>>
parseVars == <<text, origin, parsed>>
resultVars == <<call, result>>

(***************************************************************************)
(* Option<T>: None is the empty sequence, Some(x) the one-element sequence. *)
(***************************************************************************)
None == <<>>
Some(x) == <<x>>
is_some(o) == o # None
is_none(o) == o = None
unwrap(o) == o[1]

(***************************************************************************)
(* f64.  A finite value v / Scale is [cls |-> "fin", v |-> v]; NaN and the *)
(* two infinities are their own classes.  Scale is the resolution of the   *)
(* grid of finite values the model draws.                                  *)
(***************************************************************************)
Scale == 2

F(v) == [cls |-> "fin", v |-> v]
Hours(h) == F(h * Scale)
NaN == [cls |-> "nan", v |-> 0]
PosInf == [cls |-> "pinf", v |-> 0]
NegInf == [cls |-> "ninf", v |-> 0]

\* IEEE 754 a > b: false when either side is NaN.
FGt(a, b) ==
    /\ a.cls # "nan"
    /\ b.cls # "nan"
    /\ CASE a.cls = "pinf" -> b.cls # "pinf"
         [] a.cls = "ninf" -> FALSE
         [] OTHER -> \/ b.cls = "ninf"
                     \/ (b.cls = "fin" /\ a.v > b.v)

\* f64::max: the larger operand; a NaN operand is ignored.
FMax(a, b) ==
    IF a.cls = "nan" THEN b
    ELSE IF b.cls = "nan" THEN a
    ELSE IF FGt(b, a) THEN b ELSE a

(***************************************************************************)
(* InsulinCurve and its per-variant constant tables.                       *)
(***************************************************************************)
InsulinCurve == {"Bilinear", "RapidActing", "UltraRapid"}

\* a faulty default_peak: UltraRapid's default outside its custom-peak range
default_peak_mut(c) ==
    CASE c = "Bilinear" -> 75
      [] c = "RapidActing" -> 75
      [] c = "UltraRapid" -> 155

default_peak(c) ==
    CASE c = "Bilinear" -> 75
      [] c = "RapidActing" -> 75
      [] c = "UltraRapid" -> 55

\* a faulty min_dia: Bilinear's minimum used for every curve
min_dia_mut(c) ==
    CASE c = "Bilinear" -> Hours(3)
      [] c = "RapidActing" -> Hours(3)
      [] c = "UltraRapid" -> Hours(3)

min_dia(c) ==
    CASE c = "Bilinear" -> Hours(3)
      [] c = "RapidActing" -> Hours(5)
      [] c = "UltraRapid" -> Hours(5)

min_peak(c) ==
    CASE c = "Bilinear" -> 75
      [] c = "RapidActing" -> 50
      [] c = "UltraRapid" -> 35

max_peak(c) ==
    CASE c = "Bilinear" -> 75
      [] c = "RapidActing" -> 120
      [] c = "UltraRapid" -> 100

\* Ord::clamp on u32: panics when min > max.
Clamp(x, lo, hi) ==
    IF lo > hi THEN [kind |-> "Panic", v |-> 0]
    ELSE IF x < lo THEN [kind |-> "Ok", v |-> lo]
    ELSE IF x > hi THEN [kind |-> "Ok", v |-> hi]
    ELSE [kind |-> "Ok", v |-> x]

\* a faulty effective_dia: the minimum is not enforced
effective_dia_mut(c, d) == d

effective_dia(c, d) == FMax(d, min_dia(c))

\* a faulty effective_peak: the custom peak is not clamped
effective_peak_mut(c, p, custom) ==
    IF custom THEN [kind |-> "Ok", v |-> p]
    ELSE [kind |-> "Ok", v |-> default_peak(c)]

effective_peak(c, p, custom) ==
    IF custom THEN Clamp(p, min_peak(c), max_peak(c))
    ELSE [kind |-> "Ok", v |-> default_peak(c)]

(***************************************************************************)
(* Profile construction as the crate documents it:                         *)
(*   let profile = Profile::builder().dia(d).curve(c).build();             *)
(* The value build() returns is used as the profile itself (&profile), so  *)
(* it is a Profile carrying the configured fields, not a Result.           *)
(***************************************************************************)
build(c, d) == [kind |-> "Profile", curve |-> c, dia |-> d]

(***************************************************************************)
(* Neutral values of the variables a specification does not use.           *)
(***************************************************************************)
NoText == <<>>
NoOrigin == [kind |-> "none"]
NoCall == [fn |-> "none"]

(***************************************************************************)
(* SpecCurve: a profile configuration (curve, dia, peak, use_custom) is    *)
(* drawn, the profile is built, and the curve helpers are applied to it.   *)
(***************************************************************************)
MaxDiaHours == 8
MaxPeakIn == 125

DiaInputs ==
    {F(v) : v \in (0 - Scale)..(MaxDiaHours * Scale)} \cup {NaN, PosInf, NegInf}
PeakInputs == 0..MaxPeakIn

Build ==
    /\ profile = None
    /\ profile' = Some(build(curve, dia))
    /\ UNCHANGED <<curve, dia, peak, use_custom, eff_dia, eff_peak>>
    /\ UNCHANGED <<parseVars, resultVars, wire>>

EffectiveDia ==
    /\ eff_dia = None
    /\ eff_dia' = Some(effective_dia(curve, dia))
    /\ UNCHANGED <<curve, dia, peak, use_custom, eff_peak, profile>>
    /\ UNCHANGED <<parseVars, resultVars, wire>>

EffectivePeak ==
    /\ eff_peak = None
    /\ eff_peak' = Some(effective_peak(curve, peak, use_custom))
    /\ UNCHANGED <<curve, dia, peak, use_custom, eff_dia, profile>>
    /\ UNCHANGED <<parseVars, resultVars, wire>>

(***************************************************************************)
(* DetermineBasalResult.  String is a TLA+ string; f64 as above; u32 a     *)
(* natural number; Vec<f64> a sequence.                                    *)
(***************************************************************************)
Default ==
    [rate |-> None,
     duration |-> None,
     reason |-> "",
     cob |-> F(0),
     iob |-> F(0),
     eventual_bg |-> F(0),
     insulin_req |-> None,
     units |-> None,
     tick |-> None,
     error |-> None,
     deliver_at |-> None,
     sensitivity_ratio |-> None,
     variable_sens |-> None,
     predicted_bg |-> None,
     pred_bgs_uam |-> None,
     pred_bgs_iob |-> None,
     pred_bgs_zt |-> None,
     pred_bgs_cob |-> None,
     bg_mins_ago |-> None,
     target_bg |-> None,
     smb_enabled |-> None,
     carbs_req |-> None,
     threshold |-> None]

\* a faulty error: built like a zero temp basal with the error added
error_mut(message) ==
    [Default EXCEPT !.error = Some(message),
                    !.rate = Some(F(0)),
                    !.duration = Some(0)]

error(message) ==
    [Default EXCEPT !.error = Some(message)]

temp_basal(r, d, why) ==
    [Default EXCEPT !.rate = Some(r),
                    !.duration = Some(d),
                    !.reason = why]

smb(u, r, d, why) ==
    [Default EXCEPT !.units = Some(u),
                    !.rate = Some(r),
                    !.duration = Some(d),
                    !.reason = why]

\* a faulty no_action: a rate is set
no_action_mut(why) ==
    [Default EXCEPT !.rate = Some(F(0)),
                    !.reason = why]

no_action(why) ==
    [Default EXCEPT !.reason = why]

\* a faulty has_smb: any set units counts
has_smb_mut(r) == is_some(r.units)

has_smb(r) ==
    IF is_some(r.units) THEN FGt(unwrap(r.units), F(0)) ELSE FALSE

has_temp(r) == is_some(r.rate) /\ is_some(r.duration)

has_error(r) == is_some(r.error)

(***************************************************************************)
(* TempBasalRecommendation.                                                *)
(***************************************************************************)
new(r, d, why) == [rate |-> r, duration |-> d, reason |-> why]

zero(d, why) == new(F(0), d, why)

(***************************************************************************)
(* SpecResult: each action is one constructor call with drawn arguments;   *)
(* call records the constructor and its arguments, result what it returned.*)
(* The constructors are pure: a call does not depend on the one before.    *)
(***************************************************************************)
MaxAmount == 1
MaxDuration == 1

Amounts == {F(v) : v \in (0 - MaxAmount)..MaxAmount} \cup {NaN, PosInf, NegInf}
Durations == 0..MaxDuration
Strings == {"", "BG 60 < threshold 70", "stale glucose"}

CallDefault ==
    /\ call' = [fn |-> "default"]
    /\ result' = Some(Default)
    /\ UNCHANGED <<curveVars, parseVars, wire>>

CallError ==
    \E m \in Strings :
        /\ call' = [fn |-> "error", message |-> m]
        /\ result' = Some(error(m))
        /\ UNCHANGED <<curveVars, parseVars, wire>>

CallTempBasal ==
    \E r \in Amounts, d \in Durations, why \in Strings :
        /\ call' = [fn |-> "temp_basal", rate |-> r, duration |-> d,
                    reason |-> why]
        /\ result' = Some(temp_basal(r, d, why))
        /\ UNCHANGED <<curveVars, parseVars, wire>>

CallSmb ==
    \E u \in Amounts, r \in Amounts, d \in Durations, why \in Strings :
        /\ call' = [fn |-> "smb", units |-> u, rate |-> r, duration |-> d,
                    reason |-> why]
        /\ result' = Some(smb(u, r, d, why))
        /\ UNCHANGED <<curveVars, parseVars, wire>>

CallNoAction ==
    \E why \in Strings :
        /\ call' = [fn |-> "no_action", reason |-> why]
        /\ result' = Some(no_action(why))
        /\ UNCHANGED <<curveVars, parseVars, wire>>

RecNew ==
    \E r \in Amounts, d \in Durations, why \in Strings :
        /\ call' = [fn |-> "TempBasalRecommendation::new", rate |-> r,
                    duration |-> d, reason |-> why]
        /\ result' = Some(new(r, d, why))
        /\ UNCHANGED <<curveVars, parseVars, wire>>

RecZero ==
    \E d \in Durations, why \in Strings :
        /\ call' = [fn |-> "TempBasalRecommendation::zero", duration |-> d,
                    reason |-> why]
        /\ result' = Some(zero(d, why))
        /\ UNCHANGED <<curveVars, parseVars, wire>>

(***************************************************************************)
(* Strings whose characters matter are sequences of one-character strings. *)
(***************************************************************************)
LowerLetters ==
    <<"a", "b", "c", "d", "e", "f", "g", "h", "i", "j", "k", "l", "m",
      "n", "o", "p", "q", "r", "s", "t", "u", "v", "w", "x", "y", "z">>
UpperLetters ==
    <<"A", "B", "C", "D", "E", "F", "G", "H", "I", "J", "K", "L", "M",
      "N", "O", "P", "Q", "R", "S", "T", "U", "V", "W", "X", "Y", "Z">>

IndexIn(ch, letters) ==
    IF \E i \in DOMAIN letters : letters[i] = ch
    THEN CHOOSE i \in DOMAIN letters : letters[i] = ch
    ELSE 0

\* char::to_lowercase on the characters the model draws (ASCII).
lower_char(ch) ==
    IF IndexIn(ch, UpperLetters) # 0
    THEN LowerLetters[IndexIn(ch, UpperLetters)]
    ELSE ch

\* char::to_ascii_uppercase.
to_ascii_uppercase(ch) ==
    IF IndexIn(ch, LowerLetters) # 0
    THEN UpperLetters[IndexIn(ch, LowerLetters)]
    ELSE ch

\* char::to_ascii_lowercase.
to_ascii_lowercase(ch) == lower_char(ch)

\* str::to_lowercase.
to_lowercase(s) == [i \in DOMAIN s |-> lower_char(s[i])]

\* The string literals of curves.rs.
StrBilinear ==
    <<"b", "i", "l", "i", "n", "e", "a", "r">>
StrRapidDashActing ==
    <<"r", "a", "p", "i", "d", "-", "a", "c", "t", "i", "n", "g">>
StrRapidActing ==
    <<"r", "a", "p", "i", "d", "a", "c", "t", "i", "n", "g">>
StrRapidUnderActing ==
    <<"r", "a", "p", "i", "d", "_", "a", "c", "t", "i", "n", "g">>
StrUltraDashRapid ==
    <<"u", "l", "t", "r", "a", "-", "r", "a", "p", "i", "d">>
StrUltraRapid ==
    <<"u", "l", "t", "r", "a", "r", "a", "p", "i", "d">>
StrUltraUnderRapid ==
    <<"u", "l", "t", "r", "a", "_", "r", "a", "p", "i", "d">>

(***************************************************************************)
(* impl Display for InsulinCurve and impl FromStr for InsulinCurve.        *)
(***************************************************************************)
Ok(c) == [tag |-> "Ok", curve |-> c]
Err(fmt, arg) == [tag |-> "Err", fmt |-> fmt, arg |-> arg]

\* a faulty Display: the exponential curves' names cut at the hyphen
fmt_mut(c) ==
    CASE c = "Bilinear" -> StrBilinear
      [] c = "RapidActing" -> SubSeq(StrRapidDashActing, 1, 5)
      [] c = "UltraRapid" -> SubSeq(StrUltraDashRapid, 1, 5)

fmt(c) ==
    CASE c = "Bilinear" -> StrBilinear
      [] c = "RapidActing" -> StrRapidDashActing
      [] c = "UltraRapid" -> StrUltraDashRapid

\* a faulty from_str: the input is matched without lower-casing
from_str_mut(s) ==
    CASE s = StrBilinear -> Ok("Bilinear")
      [] s \in {StrRapidDashActing, StrRapidActing, StrRapidUnderActing} ->
            Ok("RapidActing")
      [] s \in {StrUltraDashRapid, StrUltraRapid, StrUltraUnderRapid} ->
            Ok("UltraRapid")
      [] OTHER -> Err("Unknown insulin curve: {}", s)

from_str(s) ==
    LET l == to_lowercase(s)
    IN  CASE l = StrBilinear -> Ok("Bilinear")
          [] l \in {StrRapidDashActing, StrRapidActing, StrRapidUnderActing} ->
                Ok("RapidActing")
          [] l \in {StrUltraDashRapid, StrUltraRapid, StrUltraUnderRapid} ->
                Ok("UltraRapid")
          [] OTHER -> Err("Unknown insulin curve: {}", s)

(***************************************************************************)
(* SpecParse: a string is drawn and parsed, or a curve is displayed and    *)
(* the displayed string parsed.                                            *)
(***************************************************************************)
MaxJunkLen == 2

\* The names from_str accepts, with the variant each stands for.
Accepted ==
    <<[chars |-> StrBilinear, curve |-> "Bilinear"],
      [chars |-> StrRapidDashActing, curve |-> "RapidActing"],
      [chars |-> StrRapidActing, curve |-> "RapidActing"],
      [chars |-> StrRapidUnderActing, curve |-> "RapidActing"],
      [chars |-> StrUltraDashRapid, curve |-> "UltraRapid"],
      [chars |-> StrUltraRapid, curve |-> "UltraRapid"],
      [chars |-> StrUltraUnderRapid, curve |-> "UltraRapid"]>>

AcceptedNames == {Accepted[k].chars : k \in DOMAIN Accepted}

\* name with the letters at the positions in mask written in upper case
Cased(name, mask) ==
    [i \in DOMAIN name |->
        IF i \in mask THEN to_ascii_uppercase(name[i]) ELSE name[i]]

CaseVariants ==
    UNION {{Cased(n, m) : m \in SUBSET DOMAIN n} : n \in AcceptedNames}

JunkAlphabet == {"a", "B", "-", "_", " "}

ShortStrings ==
    UNION {[1..n -> JunkAlphabet] : n \in 0..MaxJunkLen}

Drop(s, i) == SubSeq(s, 1, i - 1) \o SubSeq(s, i + 1, Len(s))

\* accepted names (lower and upper case) with one character dropped,
\* appended or prepended
NearMisses ==
    LET bases == AcceptedNames \cup {Cased(n, DOMAIN n) : n \in AcceptedNames}
    IN  UNION {{Drop(n, i) : i \in DOMAIN n} : n \in bases}
        \cup {n \o <<ch>> : ch \in JunkAlphabet, n \in bases}
        \cup {<<ch>> \o n : ch \in JunkAlphabet, n \in bases}

ParseInputs == CaseVariants \cup ShortStrings \cup NearMisses

Fmt ==
    \E c \in InsulinCurve :
        /\ text' = fmt(c)
        /\ origin' = [kind |-> "display", curve |-> c]
        /\ parsed' = None
        /\ UNCHANGED <<curveVars, resultVars, wire>>

FromStr ==
    /\ parsed = None
    /\ parsed' = Some(from_str(text))
    /\ UNCHANGED <<text, origin>>
    /\ UNCHANGED <<curveVars, resultVars, wire>>

(***************************************************************************)
(* Serialization of DetermineBasalResult (feature "serde"): the derived    *)
(* Serialize writes the fields in declaration order, renamed by            *)
(* rename_all = "camelCase", leaving out a field whose skip_serializing_if *)
(* predicate holds.                                                        *)
(***************************************************************************)
FieldOrder ==
    <<"rate", "duration", "reason", "cob",
      "iob", "eventual_bg", "insulin_req", "units",
      "tick", "error", "deliver_at", "sensitivity_ratio",
      "variable_sens", "predicted_bg", "pred_bgs_uam", "pred_bgs_iob",
      "pred_bgs_zt", "pred_bgs_cob", "bg_mins_ago", "target_bg",
      "smb_enabled", "carbs_req", "threshold">>

Fields == {FieldOrder[i] : i \in DOMAIN FieldOrder}

\* the fields declared Option<...>
OptionFields ==
    {"rate", "duration", "insulin_req", "units",
     "tick", "error", "deliver_at", "sensitivity_ratio",
     "variable_sens", "predicted_bg", "pred_bgs_uam", "pred_bgs_iob",
     "pred_bgs_zt", "pred_bgs_cob", "bg_mins_ago", "target_bg",
     "smb_enabled", "carbs_req", "threshold"}

\* a faulty attribute list: threshold lacks skip_serializing_if
SkipIfNone_mut == OptionFields \ {"threshold"}

\* the fields carrying skip_serializing_if = "Option::is_none"
SkipIfNone ==
    {"rate", "duration", "insulin_req", "units",
     "tick", "error", "deliver_at", "sensitivity_ratio",
     "variable_sens", "predicted_bg", "pred_bgs_uam", "pred_bgs_iob",
     "pred_bgs_zt", "pred_bgs_cob", "bg_mins_ago", "target_bg",
     "smb_enabled", "carbs_req", "threshold"}

\* the spelling of each field's identifier
Ident ==
    ("rate" :> <<"r", "a", "t", "e">> @@
     "duration" :> <<"d", "u", "r", "a", "t", "i", "o", "n">> @@
     "reason" :> <<"r", "e", "a", "s", "o", "n">> @@
     "cob" :> <<"c", "o", "b">> @@
     "iob" :> <<"i", "o", "b">> @@
     "eventual_bg" :> <<"e", "v", "e", "n", "t", "u", "a", "l", "_", "b", "g">> @@
     "insulin_req" :> <<"i", "n", "s", "u", "l", "i", "n", "_", "r", "e", "q">> @@
     "units" :> <<"u", "n", "i", "t", "s">> @@
     "tick" :> <<"t", "i", "c", "k">> @@
     "error" :> <<"e", "r", "r", "o", "r">> @@
     "deliver_at" :> <<"d", "e", "l", "i", "v", "e", "r", "_", "a", "t">> @@
     "sensitivity_ratio" :> <<"s", "e", "n", "s", "i", "t", "i", "v", "i", "t", "y", "_", "r", "a", "t", "i", "o">> @@
     "variable_sens" :> <<"v", "a", "r", "i", "a", "b", "l", "e", "_", "s", "e", "n", "s">> @@
     "predicted_bg" :> <<"p", "r", "e", "d", "i", "c", "t", "e", "d", "_", "b", "g">> @@
     "pred_bgs_uam" :> <<"p", "r", "e", "d", "_", "b", "g", "s", "_", "u", "a", "m">> @@
     "pred_bgs_iob" :> <<"p", "r", "e", "d", "_", "b", "g", "s", "_", "i", "o", "b">> @@
     "pred_bgs_zt" :> <<"p", "r", "e", "d", "_", "b", "g", "s", "_", "z", "t">> @@
     "pred_bgs_cob" :> <<"p", "r", "e", "d", "_", "b", "g", "s", "_", "c", "o", "b">> @@
     "bg_mins_ago" :> <<"b", "g", "_", "m", "i", "n", "s", "_", "a", "g", "o">> @@
     "target_bg" :> <<"t", "a", "r", "g", "e", "t", "_", "b", "g">> @@
     "smb_enabled" :> <<"s", "m", "b", "_", "e", "n", "a", "b", "l", "e", "d">> @@
     "carbs_req" :> <<"c", "a", "r", "b", "s", "_", "r", "e", "q">> @@
     "threshold" :> <<"t", "h", "r", "e", "s", "h", "o", "l", "d">>)

\* serde's RenameRule::PascalCase on a field name
RECURSIVE PascalCase(_, _)
PascalCase(s, capitalize) ==
    IF s = <<>> THEN <<>>
    ELSE IF Head(s) = "_" THEN PascalCase(Tail(s), TRUE)
    ELSE IF capitalize
         THEN <<to_ascii_uppercase(Head(s))>> \o PascalCase(Tail(s), FALSE)
         ELSE <<Head(s)>> \o PascalCase(Tail(s), FALSE)

\* serde's RenameRule::CamelCase on a field name
CamelCase(s) ==
    LET pascal == PascalCase(s, TRUE)
    IN  <<to_ascii_lowercase(Head(pascal))>> \o Tail(pascal)

WireName == [f \in Fields |-> CamelCase(Ident[f])]

\* One emitted field: its key and the value handed to the serializer,
\* an Option field as it is (None is written as null), another as Some.
Entry(r, f) ==
    [key |-> WireName[f],
     value |-> IF f \in OptionFields THEN r[f] ELSE Some(r[f])]

RECURSIVE SerializeFields(_, _)
SerializeFields(r, fs) ==
    IF fs = <<>> THEN <<>>
    ELSE LET f == Head(fs)
         IN  (IF f \in SkipIfNone /\ is_none(r[f])
              THEN <<>>
              ELSE <<Entry(r, f)>>) \o SerializeFields(r, Tail(fs))

serialize(r) == SerializeFields(r, FieldOrder)

(***************************************************************************)
(* SpecSer: a result with any combination of its optional fields set is    *)
(* serialized.                                                             *)
(***************************************************************************)
MaxSetFields == 9

\* a value of each optional field's type
Sample ==
    ("rate" :> F(1) @@
     "duration" :> 30 @@
     "insulin_req" :> F(1) @@
     "units" :> F(1) @@
     "tick" :> "x" @@
     "error" :> "x" @@
     "deliver_at" :> "x" @@
     "sensitivity_ratio" :> F(1) @@
     "variable_sens" :> F(1) @@
     "predicted_bg" :> <<F(1), F(2)>> @@
     "pred_bgs_uam" :> <<F(1), F(2)>> @@
     "pred_bgs_iob" :> <<F(1), F(2)>> @@
     "pred_bgs_zt" :> <<F(1), F(2)>> @@
     "pred_bgs_cob" :> <<F(1), F(2)>> @@
     "bg_mins_ago" :> F(1) @@
     "target_bg" :> F(1) @@
     "smb_enabled" :> TRUE @@
     "carbs_req" :> F(1) @@
     "threshold" :> F(1))

\* the combinations drawn: at most MaxSetFields optional fields set, or at
\* most MaxSetFields of them unset (with 19 optional fields and
\* MaxSetFields = 9, every combination)
Combinations ==
    {S \in SUBSET OptionFields :
        \/ Cardinality(S) <= MaxSetFields
        \/ Cardinality(OptionFields \ S) <= MaxSetFields}

WithSet(S) ==
    [f \in Fields |-> IF f \in S THEN Some(Sample[f]) ELSE Default[f]]

Serialize ==
    /\ is_some(result)
    /\ wire = None
    /\ wire' = Some(serialize(unwrap(result)))
    /\ UNCHANGED <<curveVars, parseVars, resultVars>>

(***************************************************************************)
(* The specifications.                                                     *)
(***************************************************************************)
IdleCurve ==
    /\ curve = "RapidActing"
    /\ dia = F(0)
    /\ peak = 0
    /\ use_custom = FALSE
    /\ eff_dia = None
    /\ eff_peak = None
    /\ profile = None

IdleParse ==
    /\ text = NoText
    /\ origin = NoOrigin
    /\ parsed = None

IdleResult ==
    /\ call = NoCall
    /\ result = None

InitCurve ==
    /\ curve \in InsulinCurve
    /\ dia \in DiaInputs
    /\ peak \in PeakInputs
    /\ use_custom \in BOOLEAN
    /\ eff_dia = None
    /\ eff_peak = None
    /\ profile = None
    /\ IdleParse
    /\ IdleResult
    /\ wire = None

NextCurve == Build \/ EffectiveDia \/ EffectivePeak

SpecCurve == InitCurve /\ [][NextCurve]_vars

InitParse ==
    /\ text \in ParseInputs
    /\ origin = [kind |-> "input"]
    /\ parsed = None
    /\ IdleCurve
    /\ IdleResult
    /\ wire = None

NextParse == Fmt \/ FromStr

SpecParse == InitParse /\ [][NextParse]_vars

InitResult ==
    /\ IdleResult
    /\ IdleCurve
    /\ IdleParse
    /\ wire = None

NextResult ==
    \/ CallDefault
    \/ CallError
    \/ CallTempBasal
    \/ CallSmb
    \/ CallNoAction
    \/ RecNew
    \/ RecZero

SpecResult == InitResult /\ [][NextResult]_vars

InitSer ==
    /\ \E S \in Combinations : result = Some(WithSet(S))
    /\ call = NoCall
    /\ wire = None
    /\ IdleCurve
    /\ IdleParse

NextSer == Serialize

SpecSer == InitSer /\ [][NextSer]_vars

(***************************************************************************)
(* Properties.                                                             *)
(***************************************************************************)
\* the constructors of DetermineBasalResult (Default included)
ResultCtors == {"default", "error", "temp_basal", "smb", "no_action"}

FromCtor == is_some(result) /\ call.fn \in ResultCtors

\* x > 0 spelled out on the classes of f64
Positive(x) == x.cls = "pinf" \/ (x.cls = "fin" /\ x.v > 0)

\* a >= b on f64 (false for NaN)
FGe(a, b) ==
    /\ a.cls # "nan"
    /\ b.cls # "nan"
    /\ (FGt(a, b) \/ a = b)

\* d < min on f64 (false for NaN)
BelowMin(d, min) == FGt(min, d)

\* C1: in every result obtained from Default, error, temp_basal, smb or
\* no_action, a set error field comes with rate, duration, units and
\* insulin_req unset; has_error() excludes has_temp() and has_smb().
C1_ErrorExcludesRecommendation ==
    FromCtor =>
        LET r == unwrap(result)
        IN  /\ is_some(r.error) =>
                /\ r.rate = None
                /\ r.duration = None
                /\ r.units = None
                /\ r.insulin_req = None
            /\ has_error(r) => (~has_temp(r) /\ ~has_smb(r))

C1_Witness ==
    /\ FromCtor
    /\ call.fn = "error"
    /\ has_error(unwrap(result))
    /\ unwrap(result).rate = None

C3_CustomPeakClamps ==
    (use_custom /\ is_some(eff_peak)) =>
        LET out == unwrap(eff_peak)
        IN  /\ out.kind = "Ok"
            /\ (min_peak(curve) <= peak /\ peak <= max_peak(curve))
                    => out.v = peak
            /\ peak < min_peak(curve) => out.v = min_peak(curve)
            /\ peak > max_peak(curve) => out.v = max_peak(curve)
            /\ curve = "Bilinear" => out.v = 75

C3_Witness ==
    /\ use_custom
    /\ is_some(eff_peak)
    /\ curve = "RapidActing"
    /\ peak > max_peak(curve)
    /\ unwrap(eff_peak).v = 120

\* C4: effective_dia(dia) >= min_dia() and equals dia whenever
\* dia >= min_dia(); effective_peak lies in [min_peak(), max_peak()] with
\* and without a custom peak.
C4_EffectiveValuesInBounds ==
    /\ is_some(eff_dia) =>
            /\ FGe(unwrap(eff_dia), min_dia(curve))
            /\ FGe(dia, min_dia(curve)) => unwrap(eff_dia) = dia
    /\ is_some(eff_peak) =>
            /\ unwrap(eff_peak).kind = "Ok"
            /\ min_peak(curve) <= unwrap(eff_peak).v
            /\ unwrap(eff_peak).v <= max_peak(curve)

C4_Witness ==
    /\ is_some(eff_dia)
    /\ is_some(eff_peak)
    /\ ~use_custom
    /\ curve = "UltraRapid"
    /\ BelowMin(dia, min_dia(curve))
    /\ unwrap(eff_peak).v = 55

\* k * p minutes lie strictly before the end of action, 60 * d minutes
StrictlyBeforeEnd(k, p, d) ==
    \/ d.cls = "pinf"
    \/ (d.cls = "fin" /\ k * p * Scale < 60 * d.v)

\* C10: the effective peak is positive and strictly before the end of
\* action 60 * effective_dia, and for RapidActing and UltraRapid twice the
\* effective peak is strictly before it, so that the numerator
\* peak * (end - peak) and the denominator end - 2 * peak of tau are
\* positive.
C10_PeakBeforeHalfOfEnd ==
    (is_some(eff_dia) /\ is_some(eff_peak)) =>
        LET p == unwrap(eff_peak)
            d == unwrap(eff_dia)
        IN  /\ p.kind = "Ok"
            /\ p.v > 0
            /\ StrictlyBeforeEnd(1, p.v, d)
            /\ curve \in {"RapidActing", "UltraRapid"} =>
                    StrictlyBeforeEnd(2, p.v, d)

C10_Witness ==
    /\ is_some(eff_dia)
    /\ is_some(eff_peak)
    /\ curve = "RapidActing"
    /\ use_custom
    /\ unwrap(eff_peak).v = 120
    /\ unwrap(eff_dia) = Hours(5)

\* the lower-camel-case key of each field
CamelKey ==
    ("rate" :> <<"r", "a", "t", "e">> @@
     "duration" :> <<"d", "u", "r", "a", "t", "i", "o", "n">> @@
     "reason" :> <<"r", "e", "a", "s", "o", "n">> @@
     "cob" :> <<"c", "o", "b">> @@
     "iob" :> <<"i", "o", "b">> @@
     "eventual_bg" :> <<"e", "v", "e", "n", "t", "u", "a", "l", "B", "g">> @@
     "insulin_req" :> <<"i", "n", "s", "u", "l", "i", "n", "R", "e", "q">> @@
     "units" :> <<"u", "n", "i", "t", "s">> @@
     "tick" :> <<"t", "i", "c", "k">> @@
     "error" :> <<"e", "r", "r", "o", "r">> @@
     "deliver_at" :> <<"d", "e", "l", "i", "v", "e", "r", "A", "t">> @@
     "sensitivity_ratio" :> <<"s", "e", "n", "s", "i", "t", "i", "v", "i", "t", "y", "R", "a", "t", "i", "o">> @@
     "variable_sens" :> <<"v", "a", "r", "i", "a", "b", "l", "e", "S", "e", "n", "s">> @@
     "predicted_bg" :> <<"p", "r", "e", "d", "i", "c", "t", "e", "d", "B", "g">> @@
     "pred_bgs_uam" :> <<"p", "r", "e", "d", "B", "g", "s", "U", "a", "m">> @@
     "pred_bgs_iob" :> <<"p", "r", "e", "d", "B", "g", "s", "I", "o", "b">> @@
     "pred_bgs_zt" :> <<"p", "r", "e", "d", "B", "g", "s", "Z", "t">> @@
     "pred_bgs_cob" :> <<"p", "r", "e", "d", "B", "g", "s", "C", "o", "b">> @@
     "bg_mins_ago" :> <<"b", "g", "M", "i", "n", "s", "A", "g", "o">> @@
     "target_bg" :> <<"t", "a", "r", "g", "e", "t", "B", "g">> @@
     "smb_enabled" :> <<"s", "m", "b", "E", "n", "a", "b", "l", "e", "d">> @@
     "carbs_req" :> <<"c", "a", "r", "b", "s", "R", "e", "q">> @@
     "threshold" :> <<"t", "h", "r", "e", "s", "h", "o", "l", "d">>)

AlwaysPresent == {"reason", "cob", "iob", "eventual_bg"}

\* C5: the emitted keys are exactly those of reason, cob, iob and eventualBg
\* plus the lower-camel-case key of each optional field that is set; each
\* key is emitted once, and no emitted value is None (null).
C5_UnsetOptionalsOmitted ==
    is_some(wire) =>
        LET w == unwrap(wire)
            r == unwrap(result)
            set == {f \in OptionFields : is_some(r[f])}
        IN  /\ {w[i].key : i \in DOMAIN w} =
                    {CamelKey[f] : f \in AlwaysPresent \cup set}
            /\ Len(w) = Cardinality(AlwaysPresent \cup set)
            /\ \A i \in DOMAIN w : w[i].value # None

C5_Witness ==
    /\ is_some(wire)
    /\ is_some(unwrap(result).rate)
    /\ is_none(unwrap(result).threshold)
    /\ is_none(unwrap(result).error)
    /\ Len(unwrap(wire)) = 5

\* the fields each constructor is given
Named(fn) ==
    CASE fn = "default" -> {}
      [] fn = "error" -> {"error"}
      [] fn = "temp_basal" -> {"rate", "duration", "reason"}
      [] fn = "smb" -> {"units", "rate", "duration", "reason"}
      [] fn = "no_action" -> {"reason"}

\* C6: each constructor sets the fields named by its arguments to them and
\* leaves every other field at its default; a no_action result has neither
\* a temp basal nor an SMB.
C6_ConstructorsFrame ==
    FromCtor =>
        LET r == unwrap(result)
        IN  /\ \A f \in Fields \ Named(call.fn) : r[f] = Default[f]
            /\ call.fn = "error" => r.error = Some(call.message)
            /\ call.fn \in {"temp_basal", "smb"} =>
                    /\ r.rate = Some(call.rate)
                    /\ r.duration = Some(call.duration)
            /\ call.fn = "smb" => r.units = Some(call.units)
            /\ call.fn \in {"temp_basal", "smb", "no_action"} =>
                    r.reason = call.reason
            /\ call.fn = "no_action" => (~has_temp(r) /\ ~has_smb(r))

C6_Witness ==
    /\ FromCtor
    /\ call.fn = "no_action"
    /\ call.reason # ""
    /\ unwrap(result).rate = None

\* C7: parsing the string Display produces for a curve succeeds and returns
\* that curve.
C7_ParseInvertsDisplay ==
    (origin.kind = "display" /\ is_some(parsed)) =>
        unwrap(parsed) = Ok(origin.curve)

C7_Witness ==
    /\ origin.kind = "display"
    /\ origin.curve = "UltraRapid"
    /\ is_some(parsed)
    /\ text = StrUltraDashRapid

\* s and name are the same string up to the case of their letters
SameIgnoringCase(s, name) ==
    /\ Len(s) = Len(name)
    /\ \A i \in DOMAIN s :
            to_ascii_uppercase(s[i]) = to_ascii_uppercase(name[i])

\* C8: has_smb() holds exactly when units is set and positive; every result
\* of temp_basal, no_action, error and Default has has_smb() false; a temp
\* basal with rate 0, also one built from TempBasalRecommendation::zero,
\* has has_temp() true with rate 0 and has_smb() false.
C8_SmbOnlyWhenPositive ==
    /\ FromCtor =>
        LET r == unwrap(result)
        IN  /\ has_smb(r) <=> (is_some(r.units) /\ Positive(unwrap(r.units)))
            /\ call.fn # "smb" => ~has_smb(r)
            /\ (call.fn = "temp_basal" /\ call.rate = F(0)) =>
                    /\ has_temp(r)
                    /\ r.rate = Some(F(0))
    /\ (is_some(result) /\ call.fn = "TempBasalRecommendation::zero") =>
        LET t == unwrap(result)
            r == temp_basal(t.rate, t.duration, t.reason)
        IN  /\ t.rate = F(0)
            /\ has_temp(r)
            /\ r.rate = Some(F(0))
            /\ ~has_smb(r)

C8_Witness ==
    /\ FromCtor
    /\ call.fn = "smb"
    /\ call.units = F(0)
    /\ call.rate = F(0)
    /\ has_temp(unwrap(result))
    /\ ~has_smb(unwrap(result))

\* C9: a string that is one of the seven accepted names up to letter case
\* parses to that name's variant; every other string parses to Err.
C9_ParseCaseInsensitiveOrErr ==
    is_some(parsed) =>
        LET hits == {k \in DOMAIN Accepted :
                        SameIgnoringCase(text, Accepted[k].chars)}
        IN  IF hits = {}
            THEN unwrap(parsed).tag = "Err"
            ELSE \A k \in hits : unwrap(parsed) = Ok(Accepted[k].curve)

C9_Witness ==
    /\ is_some(parsed)
    /\ text = Cased(StrRapidUnderActing, {1, 7})
    /\ unwrap(parsed) = Ok("RapidActing")

====
